---- MODULE Spec2Model ----
(***************************************************************************)
(* MovieLens-AI offline pipeline: state-machine models of                  *)
(*   src/01_build_mf.py       (pruning, index maps, confidence matrix)     *)
(*   src/05_build_features.py (example sampler, negative sampling)         *)
(*   src/06_train_lgbm.py     (load_split, eval_metrics)                   *)
(* Each script is a separate program; each has its own specification over  *)
(* its own variables, the other scripts' variables staying idle.           *)
(***************************************************************************)
EXTENDS Integers, Sequences, FiniteSets, TLC

VARIABLES
    \* ---- 05_build_features.py ----
    ratings,      \* ratings[u][i]: star rating of item i by user u, 0 = no row
    tsOf,         \* tsOf[i]: timestamp of the rating rows of item i
    movies,       \* movies.index: the items that have metadata
    cand_map,     \* cand_map: the candidate list of each user (<<>>: no entry)
    pop_items,    \* ratings["movieId"].value_counts().index.values
    hardN,        \* args.hard_neg
    easyN,        \* args.easy_neg
    args,         \* args.set, args.out_train, args.out_valid
    rng,          \* the generator made at line 100: the index it drew last (0: none yet)
    pc,           \* position of main()
    uid,          \* user of the current groupby iteration
    posq,         \* positives of uid still to be visited (timestamp order)
    pos_rows,     \* pos_rows
    seen_items,   \* seen_items
    hard_neg,     \* hard_neg
    easy_neg,     \* easy_neg
    frame,        \* the running sample_easy_neg call: its seen, n, out
    negq,         \* items of hard_neg + easy_neg still to be visited
    neg_rows,     \* neg_rows
    rows,         \* rows
    kept_users,   \* kept_users
    saved,        \* TRUE once df.to_parquet has written the artifact
    \* ---- 06_train_lgbm.py : load_split ----
    df,           \* the table read at line 23: rows [userId, label]
    lpc,          \* position of load_split
    out_df,       \* df after line 28
    grp_sizes,    \* grp_sizes
    \* ---- 06_train_lgbm.py : eval_metrics ----
    df_pred,      \* rows [userId, label, pred]
    k,            \* k
    epc,          \* position of eval_metrics
    scored,       \* the users whose group the loop has finished, in order
    orders,       \* per finished group with a positive: its `order` (row positions in the group)
    map_scores,   \* map_scores (exact fractions <<num, den>>)
    ndcg_scores,  \* ndcg_scores (fractions <<dcg, idcg>>)
    result,       \* the returned (MAP, NDCG) pair
    \* ---- 01_build_mf.py ----
    raw,          \* ratings as read at line 68: rows [idx, userId, movieId, rating]
    mf_ratings,   \* ratings, as the filters of lines 81-92 rebind it
    all_item_ids, \* all_item_ids
    minU,         \* args.min_user_cnt
    minI,         \* args.min_item_cnt
    mpc,          \* position of main()
    user2row,     \* user2row
    item2col,     \* item2col
    C             \* the COO triplets of build_confidence

samplerVars == <<ratings, tsOf, movies, cand_map, pop_items, args, hardN, easyN, rng, pc,
                 uid, posq, pos_rows, seen_items, hard_neg, easy_neg, frame,
                 negq, neg_rows, rows, kept_users, saved>>

loadVars == <<df, lpc, out_df, grp_sizes>>
evalVars == <<df_pred, k, epc, scored, orders, map_scores, ndcg_scores, result>>
mfVars   == <<raw, mf_ratings, all_item_ids, minU, minI, mpc, user2row, item2col, C>>

vars == <<samplerVars, loadVars, evalVars, mfVars>>
Others05 == <<loadVars, evalVars, mfVars>>
Others06L == <<samplerVars, evalVars, mfVars>>
Others06E == <<samplerVars, loadVars, mfVars>>
Others01 == <<samplerVars, loadVars, evalVars>>

(***************************************************************************)
(* Bounds and universes                                                    *)
(***************************************************************************)
UserIds == 1..2
ItemIds == 1..3
MaxCand == 2          \* longest candidate list drawn
MaxNeg  == 2          \* largest --hard-neg / --easy-neg drawn

PosThresh == 4        \* --pos-thresh default
RatingValues == {0, PosThresh - 1, PosThresh}

None      == "None"
TypeError == "TypeError"
NoFrame   == [site |-> "none", seen |-> {}, n |-> 0, out |-> <<>>]

Min(a, b) == IF a < b THEN a ELSE b
Range(s) == {s[j] : j \in 1..Len(s)}

\* Sequences over S of length <= n without repeated elements
InjSeqs(S, n) ==
    UNION {{s \in [1..m -> S] : \A a, b \in 1..m : a # b => s[a] # s[b]} : m \in 0..n}

\* The elements of the finite set S as a sequence, ascending by key[x] (keys distinct)
RECURSIVE SortedBy(_, _)
SortedBy(S, key) ==
    IF S = {} THEN <<>>
    ELSE LET x == CHOOSE y \in S : \A z \in S : key[y] <= key[z]
         IN  <<x>> \o SortedBy(S \ {x}, key)

(***************************************************************************)
(* 05_build_features.py : helpers                                          *)
(***************************************************************************)

\* rng.choice(pop_items, 1) (line 44): a draw yields any index of the pool,
\* whatever was drawn before (an index can repeat at once).
RngChoice(pool) == 1..Len(pool)

\* argparse (lines 77-97): --set is one of train / valid, the two output
\* paths default to "none"
Sets == {"train", "valid"}
Paths == {"none", "NUL", "out.parquet"}
ArgSets == [set : Sets, out_train : Paths, out_valid : Paths]
DefaultArgs == [set |-> "train", out_train |-> "none", out_valid |-> "none"]

\* str(path).lower() (line 176) on the paths drawn
Lower(path) == IF path = "NUL" THEN "nul" ELSE path
\* the paths _save does not write to (line 176)
NullPaths == {"none", "null", "nul", "/dev/null", "-"}
\* the path handed to _save (lines 184-187)
SavePath(a) == IF a.set = "train" THEN a.out_train ELSE a.out_valid
\* _save (lines 175-181): TRUE when df.to_parquet is called
Written(path) == Lower(path) \notin NullPaths

Row(u, item, label) == [userId |-> u, movieId |-> item, label |-> label]

\* make_row (lines 51-69): None without metadata, else the feature dict
\* (the metadata columns are copied verbatim and are left out of the row).
make_row(u, item, label, meta) ==
    IF meta = None THEN None ELSE Row(u, item, label)

MakeRowParams == 4    \* parameters of def make_row (line 51)
ArgsAtLine128 == 5    \* make_row(uid, it, 1, meta, ts)
ArgsAtLine160 == 5    \* make_row(uid, it, 0, meta, None)

\* A call of make_row with nargs positional arguments: Python raises
\* TypeError when the count differs from the parameter count.
MakeRowCall(nargs, u, item, label, meta) ==
    IF nargs # MakeRowParams THEN TypeError ELSE make_row(u, item, label, meta)

\* cand_map.get(uid, []) (line 138)
CandOf(u) == cand_map[u]
\* a candidates file without rows
NoCandidates == [u \in UserIds |-> <<>>]

\* movies.loc[it] for an item of movies.index
MetaOf(item) == IF item \in movies THEN "meta" ELSE None

\* ratings.groupby("userId"): the users that have at least one row
UsersWithRows(r) == {u \in UserIds : \E i \in ItemIds : r[u][i] # 0}

\* set(grp["movieId"].values) (line 120)
SeenOf(r, u) == {i \in ItemIds : r[u][i] # 0}

\* grp[grp["rating"] >= args.pos_thresh].sort_values("timestamp") (line 116)
PosItemsOf(r, ts, u) == SortedBy({i \in ItemIds : r[u][i] >= PosThresh}, ts)

\* ratings["movieId"].value_counts().index.values (line 108): the rated items,
\* most rated first.  Items with equal counts come in the order pandas leaves
\* them in, which follows the row order of the file: every order of them is
\* possible, and PopItemsOf is the set of the arrays the line can produce.
PopCount(r, i) == Cardinality({u \in UserIds : r[u][i] # 0})
PopItemsOf(r) ==
    LET rated == {i \in ItemIds : PopCount(r, i) > 0}
    IN  {s \in InjSeqs(rated, Cardinality(rated)) :
            /\ Len(s) = Cardinality(rated)
            /\ \A a, b \in 1..Len(s) : a < b => PopCount(r, s[a]) >= PopCount(r, s[b])}

\* [i for i in cand_map.get(uid, []) if i not in seen_items and i in movies.index]
\*     [:args.hard_neg]                                          (lines 138-139)
HardNegOf(c, seen, meta, cnt) ==
    LET ok(i) == i \notin seen /\ i \in meta
        kept == SelectSeq(c, ok)
    IN  SubSeq(kept, 1, Min(cnt, Len(kept)))

\* sample_easy_neg, line 40: the early return
EarlyReturn(f) == f.n = 0 \/ Len(pop_items) = 0
\* sample_easy_neg, line 43: the loop condition fails
LoopDone(f) == Len(f.out) >= f.n

\* i for i in <ids> if i in movies.index (lines 146, 154)
InMovies(i) == i \in movies
WithMeta(ids) == SelectSeq(ids, InMovies)

\* The argument passed as `seen` at lines 142 and 150: seen_items.copy()
SeenArg == seen_items

(***************************************************************************)
(* 05_build_features.py : main(), lines 99-134                             *)
(***************************************************************************)
IdleLoad == df = <<>> /\ lpc = "idle" /\ out_df = <<>> /\ grp_sizes = <<>>
IdleEval ==
    /\ df_pred = <<>> /\ k = 0 /\ epc = "idle" /\ scored = <<>> /\ orders = <<>>
    /\ map_scores = <<>> /\ ndcg_scores = <<>> /\ result = None
IdleMF ==
    /\ raw = <<>> /\ mf_ratings = <<>> /\ all_item_ids = <<>> /\ minU = 0 /\ minI = 0
    /\ mpc = "idle" /\ user2row = <<>> /\ item2col = <<>> /\ C = <<>>

Idle05 ==
    /\ hardN = 0 /\ easyN = 0 /\ rng = 0
    /\ uid = 0 /\ posq = <<>> /\ pos_rows = <<>> /\ seen_items = {}
    /\ hard_neg = <<>> /\ easy_neg = <<>> /\ frame = NoFrame /\ negq = <<>>
    /\ neg_rows = <<>> /\ rows = <<>> /\ kept_users = 0 /\ saved = FALSE

Init ==
    /\ ratings \in [UserIds -> [ItemIds -> RatingValues]]
    /\ tsOf \in {t \in [ItemIds -> 1..Cardinality(ItemIds)] :
                   \A a, b \in ItemIds : a # b => t[a] # t[b]}
    /\ movies \in SUBSET ItemIds
    /\ pop_items \in PopItemsOf(ratings)
    /\ cand_map = NoCandidates
    /\ args \in ArgSets
    /\ pc = "loop"
    /\ Idle05
    /\ IdleLoad /\ IdleEval /\ IdleMF

\* for uid, grp in ratings.groupby("userId") (lines 114-120)
NextUser ==
    /\ pc = "loop"
    /\ \E u \in UsersWithRows(ratings) :
        /\ u > uid
        /\ \A v \in UsersWithRows(ratings) : v > uid => u <= v
        /\ uid' = u
        /\ LET pos == PosItemsOf(ratings, tsOf, u)
           IN  IF pos = <<>>
               THEN UNCHANGED <<pc, posq, pos_rows, seen_items>>
               ELSE /\ seen_items' = SeenOf(ratings, u)
                    /\ pos_rows' = <<>>
                    /\ posq' = pos
                    /\ pc' = "pos"
    /\ UNCHANGED <<Others05, ratings, tsOf, movies, cand_map, pop_items, args, hardN, easyN, rng,
                   hard_neg, easy_neg, frame, negq, neg_rows, rows, kept_users, saved>>

\* one iteration of the loop over the positives (lines 124-130)
PosItem ==
    /\ pc = "pos" /\ posq # <<>>
    /\ LET it == Head(posq)
           r  == MakeRowCall(ArgsAtLine128, uid, it, 1, MetaOf(it))
       IN  /\ posq' = Tail(posq)
           /\ IF it \notin movies THEN UNCHANGED <<pc, pos_rows>>
              ELSE IF r = TypeError THEN pc' = "error" /\ UNCHANGED pos_rows
              ELSE IF r # None THEN pos_rows' = Append(pos_rows, r) /\ UNCHANGED pc
              ELSE UNCHANGED <<pc, pos_rows>>
    /\ UNCHANGED <<Others05, ratings, tsOf, movies, cand_map, pop_items, args, hardN, easyN, rng, uid,
                   seen_items, hard_neg, easy_neg, frame, negq, neg_rows, rows,
                   kept_users, saved>>

\* if not pos_rows: continue (lines 132-133)
PosDone ==
    /\ pc = "pos" /\ posq = <<>>
    /\ pc' = IF pos_rows = <<>> THEN "loop" ELSE "neg"
    /\ UNCHANGED <<Others05, ratings, tsOf, movies, cand_map, pop_items, args, hardN, easyN, rng, uid,
                   posq, pos_rows, seen_items, hard_neg, easy_neg, frame, negq,
                   neg_rows, rows, kept_users, saved>>

\* after the loop: df = pd.DataFrame(rows); _save of the path chosen by
\* args.set, which writes unless the path is a null path (lines 169-187)
Finish ==
    /\ pc = "loop"
    /\ ~ \E u \in UsersWithRows(ratings) : u > uid
    /\ saved' = Written(SavePath(args))
    /\ pc' = "done"
    /\ UNCHANGED <<Others05, ratings, tsOf, movies, cand_map, pop_items, args, hardN, easyN, rng, uid,
                   posq, pos_rows, seen_items, hard_neg, easy_neg, frame, negq,
                   neg_rows, rows, kept_users>>

Next == NextUser \/ PosItem \/ PosDone \/ Finish

Spec == Init /\ [][Next]_vars /\ WF_vars(Next)

\* main() run with a candidates file and --hard-neg given, on ratings that
\* are 0 or PosThresh stars, the default output paths and --easy-neg 0
InitCand ==
    /\ ratings \in [UserIds -> [ItemIds -> {0, PosThresh}]]
    /\ tsOf = [i \in ItemIds |-> i]
    /\ movies \in SUBSET ItemIds
    /\ pop_items \in PopItemsOf(ratings)
    /\ cand_map \in [UserIds -> InjSeqs(ItemIds, MaxCand)]
    /\ args = DefaultArgs
    /\ hardN \in 0..MaxNeg
    /\ easyN = 0 /\ rng = 0
    /\ pc = "loop"
    /\ uid = 0 /\ posq = <<>> /\ pos_rows = <<>> /\ seen_items = {}
    /\ hard_neg = <<>> /\ easy_neg = <<>> /\ frame = NoFrame /\ negq = <<>>
    /\ neg_rows = <<>> /\ rows = <<>> /\ kept_users = 0 /\ saved = FALSE
    /\ IdleLoad /\ IdleEval /\ IdleMF

SpecCand == InitCand /\ [][Next]_vars /\ WF_vars(Next)

(***************************************************************************)
(* 05_build_features.py : the negative-sampling block of main(),           *)
(* lines 135-167, and sample_easy_neg, lines 34-48                         *)
(***************************************************************************)
\* The steps of lines 135-167 follow PosDone when pos_rows is not empty.  No
\* run of main() gets there: pos_rows is filled at line 128 only, and that
\* call raises TypeError.  The steps are written down as the code has them;
\* Draw alone is taken by a specification (sample_easy_neg called on its own).
U05 == <<ratings, tsOf, movies, cand_map, pop_items, args, hardN, easyN, uid, pos_rows,
         seen_items, posq, saved>>

\* hard_neg = [...][:args.hard_neg] (lines 138-139)
HardNegStep ==
    /\ pc = "neg"
    /\ hard_neg' = HardNegOf(CandOf(uid), seen_items, movies, hardN)
    /\ pc' = "easy_call"
    /\ UNCHANGED <<Others05, U05, rng, easy_neg, frame, negq, neg_rows, rows, kept_users>>

\* sample_easy_neg(seen_items.copy(), pop_items, args.easy_neg, rng) is entered
\* (lines 142-145, 42)
CallEasy ==
    /\ pc = "easy_call"
    /\ frame' = [site |-> "easy", seen |-> SeenArg, n |-> easyN, out |-> <<>>]
    /\ pc' = "sampling"
    /\ UNCHANGED <<Others05, U05, rng, hard_neg, easy_neg, negq, neg_rows, rows, kept_users>>

\* one iteration of `while len(out) < n` (lines 43-47) in which the
\* generator draws index i
DrawIndex(i) ==
    /\ pc = "sampling"
    /\ ~ EarlyReturn(frame)
    /\ ~ LoopDone(frame)
    /\ i \in RngChoice(pop_items)
    /\ rng' = i
    /\ LET item == pop_items[i]
       IN  frame' = IF item \notin frame.seen
                    THEN [frame EXCEPT !.out = Append(@, item), !.seen = @ \cup {item}]
                    ELSE frame
    /\ UNCHANGED <<Others05, U05, pc, hard_neg, easy_neg, negq, neg_rows, rows, kept_users>>

\* one iteration of `while len(out) < n` (lines 43-47)
Draw == \E i \in 1..Cardinality(ItemIds) : DrawIndex(i)

\* the draws are uniform and independent: with probability one no index of the
\* pool is left out forever
FairDraws == \A i \in 1..Cardinality(ItemIds) : WF_vars(DrawIndex(i))

\* the call of line 142 returns; easy_neg is filtered (146); the fallback call
\* of lines 149-153 is entered when there is no negative yet, otherwise
\* neg_rows = [] (line 157)
ReturnEasy ==
    /\ pc = "sampling" /\ frame.site = "easy"
    /\ EarlyReturn(frame) \/ LoopDone(frame)
    /\ LET ids == IF EarlyReturn(frame) THEN <<>> ELSE frame.out
           easy == WithMeta(ids)
       IN  /\ easy_neg' = easy
           /\ IF hard_neg = <<>> /\ easy = <<>>
              THEN /\ frame' = [site |-> "fallback", seen |-> SeenArg, n |-> 1, out |-> <<>>]
                   /\ UNCHANGED <<pc, negq, neg_rows>>
              ELSE /\ frame' = NoFrame
                   /\ neg_rows' = <<>>
                   /\ negq' = hard_neg \o easy
                   /\ pc' = "neg_rows"
    /\ UNCHANGED <<Others05, U05, rng, hard_neg, rows, kept_users>>

\* the fallback call returns; easy_neg is filtered (line 154); neg_rows = []
\* (line 157)
ReturnFallback ==
    /\ pc = "sampling" /\ frame.site = "fallback"
    /\ EarlyReturn(frame) \/ LoopDone(frame)
    /\ LET ids == IF EarlyReturn(frame) THEN <<>> ELSE frame.out
       IN  /\ easy_neg' = WithMeta(ids)
           /\ negq' = hard_neg \o WithMeta(ids)
    /\ frame' = NoFrame
    /\ neg_rows' = <<>>
    /\ pc' = "neg_rows"
    /\ UNCHANGED <<Others05, U05, rng, hard_neg, rows, kept_users>>

\* one iteration of `for it in hard_neg + easy_neg` (lines 158-160)
NegItem ==
    /\ pc = "neg_rows" /\ negq # <<>>
    /\ LET it == Head(negq)
           r  == MakeRowCall(ArgsAtLine160, uid, it, 0, MetaOf(it))
       IN  /\ negq' = Tail(negq)
           /\ IF r = TypeError THEN pc' = "error" /\ UNCHANGED neg_rows
              ELSE neg_rows' = Append(neg_rows, r) /\ UNCHANGED pc
    /\ UNCHANGED <<Others05, U05, rng, hard_neg, easy_neg, frame, rows, kept_users>>

\* if not neg_rows: continue; rows.extend(...); kept_users += 1 (lines 162-167)
NegDone ==
    /\ pc = "neg_rows" /\ negq = <<>>
    /\ IF neg_rows = <<>>
       THEN UNCHANGED <<rows, kept_users>>
       ELSE /\ rows' = rows \o pos_rows \o neg_rows
            /\ kept_users' = kept_users + 1
    /\ pc' = "loop"
    /\ UNCHANGED <<Others05, U05, rng, hard_neg, easy_neg, frame, negq, neg_rows>>

(***************************************************************************)
(* sample_easy_neg called on its own: any seen set, pool and count         *)
(***************************************************************************)
\* return out (line 48), or return [] (line 41)
ReturnCall ==
    /\ pc = "sampling" /\ frame.site = "call"
    /\ EarlyReturn(frame) \/ LoopDone(frame)
    /\ easy_neg' = IF EarlyReturn(frame) THEN <<>> ELSE frame.out
    /\ pc' = "returned"
    /\ UNCHANGED <<Others05, U05, rng, hard_neg, frame, negq, neg_rows, rows, kept_users>>

InitEasy ==
    /\ ratings = [u \in UserIds |-> [i \in ItemIds |-> 0]]
    /\ tsOf = [i \in ItemIds |-> i]
    /\ movies = ItemIds
    /\ uid = 1
    /\ pop_items \in InjSeqs(ItemIds, Cardinality(ItemIds))
    /\ args = DefaultArgs
    /\ cand_map = NoCandidates /\ hardN = 0
    /\ easyN \in 0..MaxNeg
    /\ rng = 0
    /\ seen_items \in SUBSET ItemIds
    /\ frame = [site |-> "call", seen |-> seen_items, n |-> easyN, out |-> <<>>]
    /\ pc = "sampling"
    /\ pos_rows = <<>> /\ posq = <<>> /\ hard_neg = <<>> /\ easy_neg = <<>>
    /\ negq = <<>> /\ neg_rows = <<>> /\ rows = <<>> /\ kept_users = 0
    /\ saved = FALSE
    /\ IdleLoad /\ IdleEval /\ IdleMF

NextEasy == Draw \/ ReturnCall

SpecEasy == InitEasy /\ [][NextEasy]_vars /\ WF_vars(NextEasy) /\ FairDraws

(***************************************************************************)
(* The sampler at rest, for the specifications of the other scripts        *)
(***************************************************************************)
IdleSampler ==
    /\ ratings = [u \in UserIds |-> [i \in ItemIds |-> 0]]
    /\ tsOf = [i \in ItemIds |-> i]
    /\ movies = {} /\ pop_items = <<>> /\ pc = "idle"
    /\ args = DefaultArgs /\ cand_map = NoCandidates
    /\ Idle05

(***************************************************************************)
(* 06_train_lgbm.py : load_split (lines 18-38)                             *)
(***************************************************************************)
LoadUserIds == 1..3
MaxRows == 5          \* longest table drawn

RECURSIVE SumSeq(_)
SumSeq(s) == IF s = <<>> THEN 0 ELSE Head(s) + SumSeq(Tail(s))

\* df.groupby("userId")["label"].agg(["sum", "count"]) (line 26)
LabelSum(d, u)   == SumSeq([j \in 1..Len(d) |-> IF d[j].userId = u THEN d[j].label ELSE 0])
LabelCount(d, u) == Cardinality({j \in 1..Len(d) : d[j].userId = u})

\* stats[(stats["sum"] > 0) & (stats["sum"] < stats["count"])].index (line 27)
OkUsersNoUpper(d) ==
    {u \in {d[j].userId : j \in 1..Len(d)} : LabelSum(d, u) > 0}
OkUsers(d) ==
    {u \in {d[j].userId : j \in 1..Len(d)} :
        LabelSum(d, u) > 0 /\ LabelSum(d, u) < LabelCount(d, u)}

\* df[df.userId.isin(ok)].reset_index(drop=True) (line 28)
FilterOk(d) ==
    LET ok == OkUsers(d)
        keep(r) == r.userId \in ok
    IN  SelectSeq(d, keep)

\* The distinct userIds of d in order of first appearance (groupby sort=False)
\* the users of d in ascending order (what groupby gives with sort=True)
RECURSIVE AscendingSeq(_)
AscendingSeq(S) ==
    IF S = {} THEN <<>>
    ELSE LET lo == CHOOSE x \in S : \A y \in S : x <= y
         IN  <<lo>> \o AscendingSeq(S \ {lo})
FirstSeenSorted(d) == AscendingSeq({d[j].userId : j \in 1..Len(d)})

RECURSIVE FirstSeen(_)
FirstSeen(d) ==
    IF d = <<>> THEN <<>>
    ELSE LET rest == FirstSeen(SubSeq(d, 1, Len(d) - 1))
             u == d[Len(d)].userId
         IN  IF u \in Range(rest) THEN rest ELSE Append(rest, u)

\* df.groupby("userId", sort=False)["movieId"].size().to_list() (lines 31-36)
GroupSizes(d) ==
    LET us == FirstSeen(d)
    IN  [j \in 1..Len(us) |-> LabelCount(d, us[j])]

InitLoad ==
    /\ df \in UNION {[1..n -> [userId : LoadUserIds, label : {0, 1}]] : n \in 0..MaxRows}
    /\ lpc = "read" /\ out_df = <<>> /\ grp_sizes = <<>>
    /\ IdleSampler /\ IdleEval /\ IdleMF

\* lines 26-28
LoadFilter ==
    /\ lpc = "read"
    /\ out_df' = FilterOk(df)
    /\ lpc' = "filtered"
    /\ UNCHANGED <<Others06L, df, grp_sizes>>

\* lines 31-36
LoadGroupSizes ==
    /\ lpc = "filtered"
    /\ grp_sizes' = GroupSizes(out_df)
    /\ lpc' = "sized"
    /\ UNCHANGED <<Others06L, df, out_df>>

\* assert sum(grp_sizes) == len(df); return df, grp_sizes (lines 37-38)
LoadAssertReturn ==
    /\ lpc = "sized"
    /\ lpc' = IF SumSeq(grp_sizes) = Len(out_df) THEN "returned" ELSE "AssertionError"
    /\ UNCHANGED <<Others06L, df, out_df, grp_sizes>>

NextLoad == LoadFilter \/ LoadGroupSizes \/ LoadAssertReturn

SpecLoad == InitLoad /\ [][NextLoad]_vars /\ WF_vars(NextLoad)

HasLabel(d, u, l) == \E j \in 1..Len(d) : d[j].userId = u /\ d[j].label = l
Mixed(d, u) == HasLabel(d, u, 1) /\ HasLabel(d, u, 0)
RowsOf(d, u) == SelectSeq(d, LAMBDA r : r.userId = u)

\* C7: load_split returns exactly the rows of the users that have both a
\* label-1 and a label-0 row (degenerate groups are dropped whole, mixed
\* groups are kept whole and in order), the recomputed group sizes sum to the
\* number of returned rows, and the assertion never fails.
C7_LoadSplitKeepsMixedGroups ==
    /\ lpc # "AssertionError"
    /\ lpc \in {"filtered", "sized", "returned"} =>
        /\ \A j \in 1..Len(out_df) : Mixed(df, out_df[j].userId)
        /\ \A u \in LoadUserIds :
              IF Mixed(df, u) THEN RowsOf(out_df, u) = RowsOf(df, u)
                              ELSE RowsOf(out_df, u) = <<>>
        /\ Len(out_df) = Cardinality({j \in 1..Len(df) : Mixed(df, df[j].userId)})
    /\ lpc = "returned" =>
        /\ SumSeq(grp_sizes) = Len(out_df)
        /\ \A j \in 1..Len(grp_sizes) : grp_sizes[j] >= 2

\* C7 witness: a returned table from which an all-positive and an
\* all-negative group were dropped and a mixed group was kept.
C7_Witness ==
    /\ lpc = "returned"
    /\ out_df # <<>>
    /\ \E u \in LoadUserIds : HasLabel(df, u, 1) /\ ~ HasLabel(df, u, 0)
    /\ \E u \in LoadUserIds : HasLabel(df, u, 0) /\ ~ HasLabel(df, u, 1)

(***************************************************************************)
(* 05_build_features.py : properties                                       *)
(***************************************************************************)
\* the items of pop_items that a call with this seen set can still return
Unseen(f) == Range(pop_items) \ f.seen

\* C2: every call of sample_easy_neg ends (by returning, or by an error that
\* aborts the run): the sampling loop is always left.
C2_SamplingTerminates == (pc = "sampling") ~> (pc # "sampling")

\* C2 witness: a call that still needs more items than the pool holds
\* outside its seen set.
C2_PoolExhausted ==
    /\ pc = "sampling" /\ ~ EarlyReturn(frame)
    /\ Cardinality(Unseen(frame)) < frame.n - Len(frame.out)

\* items rated >= posThresh by u that have metadata
MetaPositives(u) == {i \in ItemIds : ratings[u][i] >= PosThresh /\ i \in movies}
RowIdx(u, l) == {j \in 1..Len(rows) : rows[j].userId = u /\ rows[j].label = l}

\* C4: when the run is over it has not failed, a user with no positive in the
\* metadata has no row, and a user with some positive in the metadata has
\* either no row (no negative was found) or a block of one label-1 row per
\* such positive followed by its label-0 rows.
C4_BlockEmitted ==
    pc \in {"done", "error"} =>
        /\ pc = "done"
        /\ \A u \in UserIds :
              \/ RowIdx(u, 1) = {} /\ RowIdx(u, 0) = {}
              \/ /\ MetaPositives(u) # {}
                 /\ {rows[j].movieId : j \in RowIdx(u, 1)} = MetaPositives(u)
                 /\ Cardinality(RowIdx(u, 1)) = Cardinality(MetaPositives(u))
                 /\ RowIdx(u, 0) # {}
                 /\ \A a \in RowIdx(u, 1), b \in RowIdx(u, 0) : a < b

\* C4 witness: the loop reaches a positive item that has metadata.
C4_MetaPositiveVisited ==
    pc = "pos" /\ posq # <<>> /\ Head(posq) \in movies

\* the first cnt items of c, in order, that are outside seen and have metadata
RECURSIVE FirstEligible(_, _, _)
FirstEligible(c, seen, cnt) ==
    IF cnt = 0 \/ c = <<>> THEN <<>>
    ELSE IF Head(c) \notin seen /\ Head(c) \in movies
         THEN <<Head(c)>> \o FirstEligible(Tail(c), seen, cnt - 1)
         ELSE FirstEligible(Tail(c), seen, cnt)

\* the hard negatives the candidate list of u calls for
WantedHardNeg(u) == FirstEligible(CandOf(u), SeenOf(ratings, u), hardN)
\* the label-0 rows of u in the output, in output order
NegRowsOf(u) == SelectSeq(rows, LAMBDA r : r.userId = u /\ r.label = 0)

\* C6: when the run is over, for every user that has a positive with metadata,
\* the user's label-0 rows start with one row per item of the first
\* hardNegCount eligible candidates, in candidate-list order.
C6_HardNegRowsFirstK ==
    pc \in {"done", "error"} =>
        \A u \in UserIds :
            MetaPositives(u) # {} =>
                /\ Len(NegRowsOf(u)) >= Len(WantedHardNeg(u))
                /\ \A j \in 1..Len(WantedHardNeg(u)) :
                      NegRowsOf(u)[j] = Row(u, WantedHardNeg(u)[j], 0)

\* C6 witness: the run is over for a user that has a positive with metadata
\* and a candidate list with an eligible candidate behind an ineligible one.
C6_EligibleAfterIneligible ==
    /\ pc \in {"done", "error"}
    /\ \E u \in UserIds :
        /\ MetaPositives(u) # {}
        /\ Len(CandOf(u)) = 2 /\ hardN >= 1
        /\ WantedHardNeg(u) = <<CandOf(u)[2]>>

(***************************************************************************)
(* 06_train_lgbm.py : _dcg and eval_metrics (lines 67-112)                 *)
(***************************************************************************)
EvalUserIds == 1..2
PredValues  == 0..2
MaxEvalRows == 4      \* longest prediction table drawn
MaxK        == 3      \* largest k drawn

ValueError == "ValueError"

\* Exact fractions <<numerator, denominator>>, denominator > 0
RatEq(a, b)  == a[1] * b[2] = b[1] * a[2]
RatAdd(a, b) == <<a[1] * b[2] + b[1] * a[2], a[2] * b[2]>>
RECURSIVE RatSum(_)
RatSum(s) == IF s = <<>> THEN <<0, 1>> ELSE RatAdd(Head(s), RatSum(Tail(s)))
\* np.mean of a non-empty list of fractions
RatMean(s) == LET t == RatSum(s) IN <<t[1], t[2] * Len(s)>>

\* 1 / log2(rank + 1), in thousandths (line 72: np.log2(np.arange(2, size + 2)))
Discount == <<1000, 631, 500, 431, 387, 356, 333, 315>>

\* _dcg(rels) (lines 67-72), in thousandths
Dcg(rels) == SumSeq([j \in 1..Len(rels) |-> rels[j] * Discount[j]])

\* the rows of one group, in table order (groupby keeps the row order)
GroupOf(d, u) == SelectSeq(d, LAMBDA r : r.userId = u)
YTrue(g) == [j \in 1..Len(g) |-> g[j].label]
YPred(g) == [j \in 1..Len(g) |-> g[j].pred]

Reverse(s) == [j \in 1..Len(s) |-> s[Len(s) + 1 - j]]

\* y_pred.argsort(): the default kind is not a stable sort, so every
\* permutation that puts the scores in ascending order is a possible result.
ArgSorts(p) ==
    {o \in [1..Len(p) -> 1..Len(p)] :
        /\ \A a, b \in 1..Len(p) : a # b => o[a] # o[b]
        /\ \A a, b \in 1..Len(p) : a < b => p[o[a]] <= p[o[b]]}

\* (precision_at_i * hits).sum() / min(y_true.sum(), k) (lines 101-103) under
\* numpy broadcasting: cumsum and hits have min(n, k) entries, np.arange(k)
\* has k (min(n, k) <= k); unequal lengths broadcast only when one is 1.
AvgPrecision(hits, kk, npos) ==
    LET m      == Len(hits)
        cumsum == [j \in 1..m |-> SumSeq(SubSeq(hits, 1, j))]
    IN  IF m # kk /\ m # 1 THEN ValueError
        ELSE LET cs(j) == IF m = 1 THEN cumsum[1] ELSE cumsum[j]
                 ht(j) == IF m = 1 THEN hits[1] ELSE hits[j]
                 total == RatSum([j \in 1..kk |-> <<cs(j) * ht(j), j>>])
             IN  <<total[1], total[2] * Min(npos, kk)>>

\* np.sort(y_true)[::-1][:k] (line 108)
IdealTopK(yt, kk) ==
    [j \in 1..Min(kk, Len(yt)) |-> IF j <= SumSeq(yt) THEN 1 ELSE 0]

InitEval ==
    /\ df_pred \in UNION {[1..n -> [userId : EvalUserIds, label : {0, 1}, pred : PredValues]]
                            : n \in 1..MaxEvalRows}
    /\ k \in 1..MaxK
    /\ epc = "loop" /\ scored = <<>> /\ orders = <<>>
    /\ map_scores = <<>> /\ ndcg_scores = <<>> /\ result = None
    /\ IdleSampler /\ IdleLoad /\ IdleMF

EvalUsers == {df_pred[j].userId : j \in 1..Len(df_pred)}

\* one iteration of `for _, g in df_pred.groupby("userId")` (lines 83-110)
EvalGroup ==
    /\ epc = "loop"
    /\ \E u \in EvalUsers :
        /\ u \notin Range(scored)
        /\ \A v \in EvalUsers : v \notin Range(scored) => u <= v
        /\ LET g  == GroupOf(df_pred, u)
               yt == YTrue(g)
           IN  IF SumSeq(yt) = 0
               THEN /\ map_scores' = Append(map_scores, <<0, 1>>)
                    /\ ndcg_scores' = Append(ndcg_scores, <<0, 1>>)
                    /\ orders' = Append(orders, <<>>)
                    /\ scored' = Append(scored, u)
                    /\ UNCHANGED epc
               ELSE \E o \in ArgSorts(YPred(g)) :
                    LET order == Reverse(o)
                        topk  == SubSeq(order, 1, Min(k, Len(order)))
                        hits  == [j \in 1..Len(topk) |-> yt[topk[j]]]
                        ap    == IF SumSeq(hits) = 0 THEN <<0, 1>>
                                 ELSE AvgPrecision(hits, k, SumSeq(yt))
                        dcg   == Dcg(hits)
                        idcg  == Dcg(IdealTopK(yt, k))
                    IN  IF ap = ValueError
                        THEN /\ epc' = ValueError
                             /\ UNCHANGED <<map_scores, ndcg_scores, orders, scored>>
                        ELSE /\ map_scores' = Append(map_scores, ap)
                             /\ ndcg_scores' = Append(ndcg_scores,
                                    IF idcg > 0 THEN <<dcg, idcg>> ELSE <<0, 1>>)
                             /\ orders' = Append(orders, order)
                             /\ scored' = Append(scored, u)
                             /\ UNCHANGED epc
    /\ UNCHANGED <<Others06E, df_pred, k, result>>

\* return float(np.mean(map_scores)), float(np.mean(ndcg_scores)) (line 112)
EvalReturn ==
    /\ epc = "loop"
    /\ EvalUsers \subseteq Range(scored)
    /\ result' = <<RatMean(map_scores), RatMean(ndcg_scores)>>
    /\ epc' = "returned"
    /\ UNCHANGED <<Others06E, df_pred, k, scored, orders, map_scores, ndcg_scores>>

NextEval == EvalGroup \/ EvalReturn

SpecEval == InitEval /\ [][NextEval]_vars /\ WF_vars(NextEval)

\* a group with exactly one positive row, scored strictly above every other row
SingleTopPositive(u) ==
    LET g == GroupOf(df_pred, u)
    IN  /\ SumSeq(YTrue(g)) = 1
        /\ \A a, b \in 1..Len(g) :
              g[a].label = 1 /\ b # a => g[a].pred > g[b].pred

\* C8: when eval_metrics is over, every group with a single, strictly
\* top-scored positive has been scored MAP@k = 1 and NDCG@k = 1.
C8_SingleTopPositiveScoresOne ==
    epc \in {"returned", ValueError} =>
        \A u \in EvalUsers : SingleTopPositive(u) =>
            \E j \in 1..Len(scored) :
                /\ scored[j] = u
                /\ RatEq(map_scores[j], <<1, 1>>)
                /\ RatEq(ndcg_scores[j], <<1, 1>>)

\* C8 witness: such a group with fewer than k rows is in the table.
C8_SmallGroupEvaluated ==
    /\ epc \in {"returned", ValueError}
    /\ \E u \in EvalUsers : SingleTopPositive(u) /\ Len(GroupOf(df_pred, u)) < k

\* C9: every ranking is the stable descending order of the scores: rows with
\* equal scores keep their original relative order.
C9_StableDescendingRanking ==
    \A j \in 1..Len(orders) :
        LET o == orders[j]
            p == YPred(GroupOf(df_pred, scored[j]))
        IN  \A a, b \in 1..Len(o) : a < b =>
                \/ p[o[a]] > p[o[b]]
                \/ p[o[a]] = p[o[b]] /\ o[a] < o[b]

\* C9 witness: a ranked group in which two rows have equal scores.
C9_TiedScoresRanked ==
    \E j \in 1..Len(orders) :
        LET p == YPred(GroupOf(df_pred, scored[j]))
        IN  orders[j] # <<>> /\ \E a, b \in 1..Len(p) : a # b /\ p[a] = p[b]

(***************************************************************************)
(* 01_build_mf.py : main(), lines 66-104, and build_confidence             *)
(***************************************************************************)
MFUserIds == 1..2
MFItemIds == 1..2
MaxRatings == 4       \* longest ratings table drawn
MaxMinCnt  == 2       \* largest --min-user-cnt / --min-item-cnt drawn
Alpha == 40           \* --alpha default

\* the rating column of the drawn tables
RatingOf(u, i) == 1 + ((u + 2 * i) % 5)

\* value_counts() of a column: the number of rows with that value
UserCnt(r, u) == Cardinality({j \in 1..Len(r) : r[j].userId = u})
ItemCnt(r, i) == Cardinality({j \in 1..Len(r) : r[j].movieId = i})

\* keep_u = set(vc[vc >= args.min_user_cnt].index) (lines 82-83)
KeepU(r) == {u \in MFUserIds : UserCnt(r, u) >= 1 /\ UserCnt(r, u) >= minU}

\* the table whose movieId column is counted at line 87: `ratings`, which
\* line 84 has rebound to the user-filtered table
ItemCountsFromRaw == raw
ItemCountsFrom == mf_ratings

\* keep_i = set(vc[vc >= args.min_item_cnt].index) (lines 87-88)
KeepI == {i \in MFItemIds : ItemCnt(ItemCountsFrom, i) >= 1
                             /\ ItemCnt(ItemCountsFrom, i) >= minI}

\* ratings["userId"].unique(): first-appearance order; user2row (lines 96-99)
User2Row(r) ==
    LET us == FirstSeen(r)
    IN  [u \in Range(us) |-> (CHOOSE j \in 1..Len(us) : us[j] = u) - 1]

\* item2col = {iid: i for i, iid in enumerate(item_ids)} (lines 97-100)
Item2Col(ids) ==
    [i \in Range(ids) |-> (CHOOSE j \in 1..Len(ids) : ids[j] = i) - 1]

\* build_confidence (lines 22-35): one COO triplet per row of ratings
build_confidence(r, u2r, i2c, alpha) ==
    [j \in 1..Len(r) |-> [row |-> u2r[r[j].userId],
                          col |-> i2c[r[j].movieId],
                          val |-> 1 + alpha * r[j].rating]]

InitMF ==
    /\ \E n \in 0..MaxRatings :
         \E us \in [1..n -> MFUserIds], is \in [1..n -> MFItemIds] :
            raw = [j \in 1..n |-> [idx |-> j, userId |-> us[j], movieId |-> is[j],
                                   rating |-> RatingOf(us[j], is[j])]]
    /\ mf_ratings = raw
    /\ all_item_ids \in InjSeqs(MFItemIds, Cardinality(MFItemIds))
    /\ minU \in 0..MaxMinCnt
    /\ minI \in 0..MaxMinCnt
    /\ mpc = "loaded" /\ user2row = <<>> /\ item2col = <<>> /\ C = <<>>
    /\ IdleSampler /\ IdleLoad /\ IdleEval

\* lines 81-84
PruneUsers ==
    /\ mpc = "loaded"
    /\ mf_ratings' = IF minU > 0
                     THEN SelectSeq(mf_ratings, LAMBDA x : x.userId \in KeepU(mf_ratings))
                     ELSE mf_ratings
    /\ mpc' = "users_pruned"
    /\ UNCHANGED <<Others01, raw, all_item_ids, minU, minI, user2row, item2col, C>>

\* lines 86-89
PruneItems ==
    /\ mpc = "users_pruned"
    /\ mf_ratings' = IF minI > 0
                     THEN SelectSeq(mf_ratings, LAMBDA x : x.movieId \in KeepI)
                     ELSE mf_ratings
    /\ mpc' = "items_pruned"
    /\ UNCHANGED <<Others01, raw, all_item_ids, minU, minI, user2row, item2col, C>>

\* ratings = ratings[ratings.movieId.isin(all_item_ids)] (line 92)
MetaFilter ==
    /\ mpc = "items_pruned"
    /\ mf_ratings' = SelectSeq(mf_ratings, LAMBDA x : x.movieId \in Range(all_item_ids))
    /\ mpc' = "filtered"
    /\ UNCHANGED <<Others01, raw, all_item_ids, minU, minI, user2row, item2col, C>>

\* lines 96-100
BuildMaps ==
    /\ mpc = "filtered"
    /\ user2row' = User2Row(mf_ratings)
    /\ item2col' = Item2Col(all_item_ids)
    /\ mpc' = "mapped"
    /\ UNCHANGED <<Others01, raw, mf_ratings, all_item_ids, minU, minI, C>>

\* C = build_confidence(ratings, user2row, item2col, alpha=args.alpha) (line 104)
BuildConfidence ==
    /\ mpc = "mapped"
    /\ C' = build_confidence(mf_ratings, user2row, item2col, Alpha)
    /\ mpc' = "built"
    /\ UNCHANGED <<Others01, raw, mf_ratings, all_item_ids, minU, minI, user2row, item2col>>

NextMF == PruneUsers \/ PruneItems \/ MetaFilter \/ BuildMaps \/ BuildConfidence

SpecMF == InitMF /\ [][NextMF]_vars /\ WF_vars(NextMF)

\* the raw interaction with index j has a triplet in the matrix
Reaches(j) == \E m \in 1..Len(mf_ratings) : mf_ratings[m].idx = j
\* the raw rows of the users that have at least minUserCount raw rows
AfterUserPruning == SelectSeq(raw, LAMBDA x : UserCnt(raw, x.userId) >= minU)
\* users get a row index only after pruning, and only users that passed it
RowIndexSpace ==
    /\ mpc \in {"loaded", "users_pruned", "items_pruned", "filtered"} => user2row = <<>>
    /\ mpc \in {"mapped", "built"} =>
        /\ DOMAIN user2row = {mf_ratings[m].userId : m \in 1..Len(mf_ratings)}
        /\ \A u \in DOMAIN user2row : UserCnt(raw, u) >= minU
    /\ mpc = "built" =>
        /\ Len(C) = Len(mf_ratings)
        /\ \A m \in 1..Len(C) : C[m].row = user2row[mf_ratings[m].userId]

\* C10 as stated: an interaction reaches the matrix exactly when its user has
\* at least minUserCount raw interactions, its item has at least minItemCount
\* raw interactions and its item is in the metadata; row indices exist only
\* after pruning and only for users that passed it.
C10_IndependentRawCounts ==
    /\ RowIndexSpace
    /\ mpc = "built" =>
        \A j \in 1..Len(raw) :
            Reaches(j) <=> /\ UserCnt(raw, raw[j].userId) >= minU
                           /\ ItemCnt(raw, raw[j].movieId) >= minI
                           /\ raw[j].movieId \in Range(all_item_ids)

\* C10 amended: the item count is taken over the interactions of the users
\* that passed user pruning, not over the raw table.
C10_ItemCountsAfterUserPruning ==
    /\ RowIndexSpace
    /\ mpc = "built" =>
        \A j \in 1..Len(raw) :
            Reaches(j) <=> /\ UserCnt(raw, raw[j].userId) >= minU
                           /\ ItemCnt(AfterUserPruning, raw[j].movieId) >= minI
                           /\ raw[j].movieId \in Range(all_item_ids)

\* C10 witness: a built matrix that holds an interaction and lacks one whose
\* user and item both reach the thresholds on the raw table, the item being
\* in the metadata.
C10_Witness ==
    /\ mpc = "built" /\ C # <<>>
    /\ \E j \in 1..Len(raw) :
        /\ ~ Reaches(j)
        /\ minU > 0 /\ UserCnt(raw, raw[j].userId) >= minU
        /\ minI > 0 /\ ItemCnt(raw, raw[j].movieId) >= minI
        /\ raw[j].movieId \in Range(all_item_ids)

(***************************************************************************)
(* 06_train_lgbm.py : load_split, group sizes against the row order        *)
(* (lgb_dataset, lines 54-64, hands grp_sizes to lgb.Dataset as `group`:   *)
(* the i-th size is read as the length of the i-th consecutive run)        *)
(***************************************************************************)
\* every user's rows are adjacent in d
Contiguous(d) ==
    \A a, b, c \in 1..Len(d) :
        a < b /\ b < c /\ d[a].userId = d[c].userId => d[b].userId = d[a].userId

\* the sizes, taken in order, cut d into consecutive runs, each run holding
\* the rows of exactly one user and all of that user's rows
RunsMatch(d, sizes) ==
    /\ SumSeq(sizes) = Len(d)
    /\ \A i \in 1..Len(sizes) :
        LET first == SumSeq(SubSeq(sizes, 1, i - 1)) + 1
            last  == first + sizes[i] - 1
        IN  /\ sizes[i] >= 1
            /\ last <= Len(d)
            /\ \A j \in 1..Len(d) :
                  (j >= first /\ j <= last) <=> d[j].userId = d[first].userId

\* C11 as stated: for every input table, adjacent rows or not, the returned
\* sizes partition the returned rows into one run per user.
C11_SizesAreRunsForEveryTable ==
    lpc = "returned" => RunsMatch(out_df, grp_sizes)

\* C11 amended: the same for every input table in which each user's rows are
\* adjacent.
C11_SizesAreRunsForContiguousTables ==
    lpc = "returned" /\ Contiguous(df) => RunsMatch(out_df, grp_sizes)

\* C11 witness: a table with adjacent user rows from which two groups of
\* different sizes are returned.
C11_Witness ==
    /\ lpc = "returned" /\ Contiguous(df)
    /\ Len(grp_sizes) >= 2
    /\ grp_sizes[1] # grp_sizes[2]

====
